---- MODULE Spec2Model ----
(***************************************************************************)
(* GraphView (frontend/src/graphview.cpp, graphview.h): the DOT loader,    *)
(* the grid layout, the placeholder and the wheel zoom of the call-graph   *)
(* view.  A QString is a sequence of one-character strings, a qreal is an  *)
(* IEEE-754 binary64 value with an exact (multi-limb) significand.         *)
(***************************************************************************)
EXTENDS Integers, Sequences, FiniteSets, TLC

(***************************************************************************)
(* Bounds of the model.                                                    *)
(***************************************************************************)
\* lines of a text built freely from the line catalogue
MaxLines == 2
\* node declarations of a text that fills the grid (more than one row)
MaxNodes == 7
\* length of the longest generated label
MaxLabelLen == 22
\* wheel events of one run under Spec
MaxWheel == 1
\* wheel events of one run under SpecZoom
MaxZoom == 6

(***************************************************************************)
(* QString: characters, comparison, search.                                *)
(***************************************************************************)
Q == "\""
NL == "\n"
\* a null QGraphicsTextItem pointer, where a message is a QString
Null == <<"nullptr">>

\* UTF-16 code unit of the characters identifiers are made of
CharCode(c) ==
    CASE c = "B" -> 66 [] c = "Z" -> 90
      [] c = "a" -> 97 [] c = "b" -> 98 [] c = "c" -> 99 [] c = "d" -> 100
      [] c = "e" -> 101 [] c = "f" -> 102 [] c = "g" -> 103 [] c = "h" -> 104
      [] c = "i" -> 105 [] c = "j" -> 106
      [] OTHER -> 120

RECURSIVE QStringLess(_, _)
\* QString operator<: lexicographic on code units, a proper prefix is smaller
QStringLess(s, t) ==
    IF t = <<>> THEN FALSE
    ELSE IF s = <<>> THEN TRUE
    ELSE IF CharCode(Head(s)) # CharCode(Head(t))
         THEN CharCode(Head(s)) < CharCode(Head(t))
    ELSE QStringLess(Tail(s), Tail(t))

RECURSIVE IndexOf(_, _, _)
\* first index >= i of character c in s, 0 when there is none
IndexOf(s, c, i) ==
    IF i > Len(s) THEN 0
    ELSE IF s[i] = c THEN i
    ELSE IndexOf(s, c, i + 1)

\* QString::contains(sub)
Contains(s, sub) ==
    \E i \in 1..(Len(s) - Len(sub) + 1) : SubSeq(s, i, i + Len(sub) - 1) = sub

\* QString::right(n)
Right(s, n) == IF n >= Len(s) THEN s ELSE SubSeq(s, Len(s) - n + 1, Len(s))

RECURSIVE Split(_, _)
\* QString::split(sep), empty parts kept
Split(s, sep) ==
    LET i == IndexOf(s, sep, 1)
    IN  IF i = 0 THEN <<s>>
        ELSE <<SubSeq(s, 1, i - 1)>> \o Split(SubSeq(s, i + 1, Len(s)), sep)

RECURSIVE Join(_, _)
Join(ls, sep) ==
    IF ls = <<>> THEN <<>>
    ELSE IF Len(ls) = 1 THEN ls[1]
    ELSE ls[1] \o <<sep>> \o Join(Tail(ls), sep)

(***************************************************************************)
(* The two regular expressions of parseDotFile.                            *)
(***************************************************************************)
IsSpace(c) == c \in {" ", "\t", "\r"}

RECURSIVE SkipSpace(_, _)
\* \s* from index i: the index of the first character that is not white space
SkipSpace(s, i) ==
    IF i <= Len(s) /\ IsSpace(s[i]) THEN SkipSpace(s, i + 1) ELSE i

\* a literal at index i
Literal(s, i, lit) ==
    /\ i + Len(lit) - 1 <= Len(s)
    /\ SubSeq(s, i, i + Len(lit) - 1) = lit

NoMatch == [ok |-> FALSE, cap |-> <<>>, next |-> 0]

\* "([^"]+)" at index i: the capture and the index after the closing quote
Quoted(s, i) ==
    IF i > Len(s) \/ s[i] # Q THEN NoMatch
    ELSE LET j == IndexOf(s, Q, i + 1)
         IN  IF j = 0 \/ j = i + 1 THEN NoMatch
             ELSE [ok |-> TRUE, cap |-> SubSeq(s, i + 1, j - 1), next |-> j + 1]

LabelOpen == <<"[", "l", "a", "b", "e", "l", "=">>
Arrow == <<"-", ">">>

\* nodeRegex anchored at index i:  "([^"]+)"\s*\[label="([^"]+)"\]
NodeRegexAt(s, i) ==
    LET id == Quoted(s, i)
        j  == SkipSpace(s, id.next)
        lb == Quoted(s, j + Len(LabelOpen))
    IN  IF id.ok /\ Literal(s, j, LabelOpen) /\ lb.ok /\ Literal(s, lb.next, <<"]">>)
        THEN [ok |-> TRUE, c1 |-> id.cap, c2 |-> lb.cap]
        ELSE [ok |-> FALSE, c1 |-> <<>>, c2 |-> <<>>]

\* edgeRegex anchored at index i:  "([^"]+)"\s*->\s*"([^"]+)"
EdgeRegexAt(s, i) ==
    LET from == Quoted(s, i)
        j    == SkipSpace(s, from.next)
        to   == Quoted(s, SkipSpace(s, j + Len(Arrow)))
    IN  IF from.ok /\ Literal(s, j, Arrow) /\ to.ok
        THEN [ok |-> TRUE, c1 |-> from.cap, c2 |-> to.cap]
        ELSE [ok |-> FALSE, c1 |-> <<>>, c2 |-> <<>>]

\* QRegularExpression::match: the leftmost match in the line
NodeMatch(line) ==
    LET hits == {i \in 1..Len(line) : NodeRegexAt(line, i).ok}
    IN  IF hits = {} THEN [ok |-> FALSE, c1 |-> <<>>, c2 |-> <<>>]
        ELSE NodeRegexAt(line, CHOOSE i \in hits : \A k \in hits : i <= k)

EdgeMatch(line) ==
    LET hits == {i \in 1..Len(line) : EdgeRegexAt(line, i).ok}
    IN  IF hits = {} THEN [ok |-> FALSE, c1 |-> <<>>, c2 |-> <<>>]
        ELSE EdgeRegexAt(line, CHOOSE i \in hits : \A k \in hits : i <= k)

(***************************************************************************)
(* Natural numbers of any size, as little-endian limbs without leading     *)
(* zero limbs: the significands of qreal arithmetic.                       *)
(***************************************************************************)
LimbBits == 13
Base == 2 ^ LimbBits

RECURSIVE Trim(_)
Trim(a) ==
    IF a = <<>> THEN a
    ELSE IF a[Len(a)] = 0 THEN Trim(SubSeq(a, 1, Len(a) - 1))
    ELSE a

RECURSIVE BigFromInt(_)
BigFromInt(n) == IF n = 0 THEN <<>> ELSE <<n % Base>> \o BigFromInt(n \div Base)

RECURSIVE AddCarry(_, _, _)
AddCarry(a, b, c) ==
    IF a = <<>> /\ b = <<>> THEN (IF c = 0 THEN <<>> ELSE <<c>>)
    ELSE LET x == IF a = <<>> THEN 0 ELSE Head(a)
             y == IF b = <<>> THEN 0 ELSE Head(b)
             t == x + y + c
         IN  <<t % Base>> \o AddCarry(IF a = <<>> THEN a ELSE Tail(a),
                                      IF b = <<>> THEN b ELSE Tail(b),
                                      t \div Base)

BigAdd(a, b) == AddCarry(a, b, 0)

RECURSIVE SubBorrow(_, _, _)
\* a - b for a >= b
SubBorrow(a, b, c) ==
    IF a = <<>> THEN <<>>
    ELSE LET y == IF b = <<>> THEN 0 ELSE Head(b)
             t == Head(a) - y - c
         IN  <<t % Base>> \o SubBorrow(Tail(a), IF b = <<>> THEN b ELSE Tail(b),
                                       IF t < 0 THEN 1 ELSE 0)

BigSub(a, b) == Trim(SubBorrow(a, b, 0))

RECURSIVE MulSmallCarry(_, _, _)
MulSmallCarry(a, d, c) ==
    IF a = <<>> THEN (IF c = 0 THEN <<>> ELSE <<c>>)
    ELSE LET t == Head(a) * d + c
         IN  <<t % Base>> \o MulSmallCarry(Tail(a), d, t \div Base)

\* a * d for 0 <= d < Base
BigMulSmall(a, d) == Trim(MulSmallCarry(a, d, 0))

RECURSIVE BigMul(_, _)
BigMul(a, b) ==
    IF a = <<>> \/ b = <<>> THEN <<>>
    ELSE BigAdd(BigMulSmall(a, Head(b)),
                LET r == BigMul(a, Tail(b)) IN IF r = <<>> THEN r ELSE <<0>> \o r)

RECURSIVE DivSmallFrom(_, _, _, _)
\* long division by d < Base from the top limb i down; <<quotient limbs, remainder>>
DivSmallFrom(a, d, i, r) ==
    IF i = 0 THEN <<<<>>, r>>
    ELSE LET t    == r * Base + a[i]
             rest == DivSmallFrom(a, d, i - 1, t % d)
         IN  <<rest[1] \o <<t \div d>>, rest[2]>>

BigDivSmall(a, d) ==
    LET r == DivSmallFrom(a, d, Len(a), 0) IN <<Trim(r[1]), r[2]>>

RECURSIVE BigLess(_, _)
BigLess(a, b) ==
    IF Len(a) # Len(b) THEN Len(a) < Len(b)
    ELSE IF a = <<>> THEN FALSE
    ELSE IF a[Len(a)] # b[Len(b)] THEN a[Len(a)] < b[Len(b)]
    ELSE BigLess(Trim(SubSeq(a, 1, Len(a) - 1)), Trim(SubSeq(b, 1, Len(b) - 1)))

RECURSIVE IntBitLen(_)
IntBitLen(n) == IF n = 0 THEN 0 ELSE 1 + IntBitLen(n \div 2)

\* number of significant bits of a
BitLen(a) == IF a = <<>> THEN 0 ELSE (Len(a) - 1) * LimbBits + IntBitLen(a[Len(a)])

\* bit i (from 0) of a
Bit(a, i) ==
    LET k == i \div LimbBits
    IN  IF k + 1 > Len(a) THEN 0 ELSE (a[k + 1] \div (2 ^ (i % LimbBits))) % 2

\* a mod 2^n = 0
LowZero(a, n) ==
    /\ \A k \in 1..Len(a) : k <= n \div LimbBits => a[k] = 0
    /\ (n \div LimbBits) + 1 <= Len(a) => a[(n \div LimbBits) + 1] % (2 ^ (n % LimbBits)) = 0

RECURSIVE Zeros(_)
Zeros(n) == IF n = 0 THEN <<>> ELSE <<0>> \o Zeros(n - 1)

\* a * 2^k
ShiftLeft(a, k) ==
    IF a = <<>> THEN a
    ELSE Zeros(k \div LimbBits) \o BigMulSmall(a, 2 ^ (k % LimbBits))

\* a div 2^k
ShiftRight(a, k) ==
    IF k \div LimbBits >= Len(a) THEN <<>>
    ELSE BigDivSmall(SubSeq(a, (k \div LimbBits) + 1, Len(a)), 2 ^ (k % LimbBits))[1]

(***************************************************************************)
(* qreal: IEEE-754 binary64, positive values.  A finite value is m * 2^e   *)
(* with m < 2^53, e >= -1074, and m >= 2^52 unless e = -1074 (subnormal).  *)
(***************************************************************************)
MantBits == 53
MinExp == -1074
MaxExp == 971

DInf == [kind |-> "inf", m |-> <<>>, e |-> 0]
DNaN == [kind |-> "nan", m |-> <<>>, e |-> 0]
DFin(m, e) == [kind |-> "fin", m |-> m, e |-> e]

Max(a, b) == IF a >= b THEN a ELSE b

\* round-to-nearest-even of m * 2^e (plus, with sticky, a fraction of an ulp of m)
DRound(m, e, sticky) ==
    IF m = <<>> THEN DFin(<<>>, MinExp)
    ELSE LET k == Max(BitLen(m) - MantBits, MinExp - e)
         IN  IF k <= 0
             THEN (IF e > MaxExp THEN DInf ELSE DFin(ShiftLeft(m, 0 - k), e + k))
             ELSE LET q    == ShiftRight(m, k)
                      half == Bit(m, k - 1) = 1
                      rest == sticky \/ ~LowZero(m, k - 1)
                      up   == half /\ (rest \/ Bit(q, 0) = 1)
                      r    == IF up THEN BigAdd(q, <<1>>) ELSE q
                      over == BitLen(r) > MantBits
                      rm   == IF over THEN ShiftRight(r, 1) ELSE r
                      re   == IF over THEN e + k + 1 ELSE e + k
                  IN  IF re > MaxExp THEN DInf ELSE DFin(rm, re)

\* x * y
DMul(x, y) ==
    IF x.kind = "nan" \/ y.kind = "nan" THEN DNaN
    ELSE IF x.kind = "inf" \/ y.kind = "inf"
         THEN (IF (x.kind = "fin" /\ x.m = <<>>) \/ (y.kind = "fin" /\ y.m = <<>>)
               THEN DNaN ELSE DInf)
    ELSE DRound(BigMul(x.m, y.m), x.e + y.e, FALSE)

\* a / b for integers 0 < a, b < Base
DDivInt(a, b) ==
    LET qr == BigDivSmall(ShiftLeft(BigFromInt(a), 2 * MantBits), b)
    IN  DRound(qr[1], 0 - 2 * MantBits, qr[2] # 0)

\* x < y for finite values
DLess(x, y) ==
    LET lo == IF x.e < y.e THEN x.e ELSE y.e
    IN  BigLess(ShiftLeft(x.m, x.e - lo), ShiftLeft(y.m, y.e - lo))

DMin(x, y) == IF DLess(y, x) THEN y ELSE x

\* the integer n < Base as a qreal
DInt(n) == DRound(BigFromInt(n), 0, FALSE)

\* one step of binary long division: the next bit of the dividend enters <<q, r>>
DivStep(qr, b, bit) ==
    LET r2 == BigAdd(BigMulSmall(qr[2], 2), IF bit = 1 THEN <<1>> ELSE <<>>)
        ge == ~BigLess(r2, b)
    IN  <<BigAdd(BigMulSmall(qr[1], 2), IF ge THEN <<1>> ELSE <<>>),
          IF ge THEN BigSub(r2, b) ELSE r2>>

RECURSIVE DivLimb(_, _, _, _)
\* the bits j .. 0 of limb d enter <<q, r>>
DivLimb(qr, b, d, j) ==
    IF j < 0 THEN qr
    ELSE LET s == DivStep(qr, b, (d \div (2 ^ j)) % 2)
         IN  IF Len(s[1]) >= 0 /\ Len(s[2]) >= 0 THEN DivLimb(s, b, d, j - 1) ELSE s

RECURSIVE DivLimbs(_, _, _, _)
\* long division of a by b from the top limb i down: <<quotient, remainder>>
DivLimbs(a, b, i, qr) ==
    IF i = 0 THEN qr
    ELSE LET s == DivLimb(qr, b, a[i], LimbBits - 1)
         IN  IF Len(s[1]) >= 0 /\ Len(s[2]) >= 0 THEN DivLimbs(a, b, i - 1, s) ELSE s

\* x / y for finite nonzero values
DDiv(x, y) ==
    LET n  == ShiftLeft(x.m, 2 * MantBits)
        qr == DivLimbs(n, y.m, Len(n), <<<<>>, <<>>>>)
    IN  DRound(qr[1], x.e - y.e - 2 * MantBits, qr[2] # <<>>)

(***************************************************************************)
(* GraphView: the constants of graphview.h and the messages.               *)
(***************************************************************************)
NODE_WIDTH == 150
NODE_HEIGHT == 40
NODE_SPACING_X == 200
NODE_SPACING_Y == 80
maxCols == 5
\* the longest label createNode shows whole
LabelLimit == 20
Ellipsis == <<".", ".", ".">>

\* the message of the constructor
InitialMessage ==
    <<"S", "e", "l", "e", "c", "t", " ", "a", " ", "f", "o", "l", "d", "e",
      "r", " ", "a", "n", "d", " ", "c", "l", "i", "c", "k", " ", "'", "R",
      "u", "n", " ", "A", "n", "a", "l", "y", "s", "i", "s", "'", NL, "t",
      "o", " ", "v", "i", "s", "u", "a", "l", "i", "z", "e", " ", "t", "h",
      "e", " ", "c", "a", "l", "l", " ", "g", "r", "a", "p", "h">>

\* loadDotFile's message, before the path
FailedPrefix ==
    <<"F", "a", "i", "l", "e", "d", " ", "t", "o", " ", "o", "p", "e", "n",
      " ", "o", "u", "t", "p", "u", "t", " ", "f", "i", "l", "e", ":", NL>>

\* parseDotFile's message for a text without nodes
NoNodesMessage ==
    <<"N", "o", " ", "n", "o", "d", "e", "s", " ", "f", "o", "u", "n", "d",
      " ", "i", "n", " ", "t", "h", "e", " ", "c", "a", "l", "l", " ", "g",
      "r", "a", "p", "h">>

\* viewport()->rect() of the widget, width and height in pixels
ViewportSize == <<800, 600>>

scaleFactor == DDivInt(11, 10)
ZoomOutFactor == DDiv(DInt(1), scaleFactor)
FitZoomOut == DDivInt(9, 10)
One == DInt(1)

(***************************************************************************)
(* The view: m_nodes maps an identifier to its ellipse item (the position  *)
(* and the text of the child label item), edges are the line and arrowhead *)
(* items of the scene in creation order, m_placeholderText is the message  *)
(* of the placeholder item or Null, scale is m11 = m22 of the view         *)
(* transform, sceneRect names the items the scene rectangle was taken from *)
(* and the margin added around them.                                       *)
(***************************************************************************)
NoNodes == [id \in {} |-> 0]

\* GraphView::clear
clearKeepsNodes(v) == [v EXCEPT !.edges = <<>>, !.m_placeholderText = Null]
clear(v) == [v EXCEPT !.m_nodes = NoNodes, !.edges = <<>>, !.m_placeholderText = Null]

\* GraphView::showPlaceholder
showPlaceholderNoClear(v, message) ==
    [v EXCEPT !.m_placeholderText = message,
              !.sceneRect = [of |-> "placeholder", margin |-> 100]]
showPlaceholder(v, message) ==
    [clear(v) EXCEPT !.m_placeholderText = message,
                     !.sceneRect = [of |-> "placeholder", margin |-> 100]]

\* the label text createNode gives the node
displayLabelLeft(label) ==
    IF Len(label) > LabelLimit THEN Ellipsis \o SubSeq(label, 1, LabelLimit) ELSE label
displayLabel(label) ==
    IF Len(label) > LabelLimit THEN Ellipsis \o Right(label, LabelLimit) ELSE label

\* GraphView::createNode, on the map of nodes
createNodeOverwrite(nodes, id, label) ==
    IF id \in DOMAIN nodes
    THEN [nodes EXCEPT ![id].text = displayLabel(label)]
    ELSE [k \in DOMAIN nodes \cup {id} |->
             IF k = id THEN [text |-> displayLabel(label), pos |-> <<0, 0>>]
             ELSE nodes[k]]
createNode(nodes, id, label) ==
    IF id \in DOMAIN nodes THEN nodes
    ELSE [k \in DOMAIN nodes \cup {id} |->
             IF k = id THEN [text |-> displayLabel(label), pos |-> <<0, 0>>]
             ELSE nodes[k]]

\* GraphView::createEdge, on the list of edge items
createEdgeFromOnly(nodes, edges, from, to) ==
    IF from \notin DOMAIN nodes THEN edges
    ELSE Append(edges,
                [from |-> from, to |-> to,
                 p1 |-> <<nodes[from].pos[1] + NODE_WIDTH \div 2,
                          nodes[from].pos[2] + NODE_HEIGHT>>,
                 p2 |-> IF to \in DOMAIN nodes
                        THEN <<nodes[to].pos[1] + NODE_WIDTH \div 2, nodes[to].pos[2]>>
                        ELSE <<NODE_WIDTH \div 2, 0>>])
createEdge(nodes, edges, from, to) ==
    IF from \notin DOMAIN nodes \/ to \notin DOMAIN nodes THEN edges
    ELSE Append(edges,
                [from |-> from, to |-> to,
                 p1 |-> <<nodes[from].pos[1] + NODE_WIDTH \div 2,
                          nodes[from].pos[2] + NODE_HEIGHT>>,
                 p2 |-> <<nodes[to].pos[1] + NODE_WIDTH \div 2, nodes[to].pos[2]>>])

RECURSIVE QMapKeys(_)
\* the keys of a QMap in iteration order: ascending by QString operator<
QMapKeys(S) ==
    IF S = {} THEN <<>>
    ELSE LET least == CHOOSE x \in S : \A y \in S \ {x} : QStringLess(x, y)
         IN  <<least>> \o QMapKeys(S \ {least})

RECURSIVE LayoutNoWrap(_, _, _, _)
LayoutNoWrap(nodes, keys, row, col) ==
    IF keys = <<>> THEN nodes
    ELSE LayoutNoWrap([nodes EXCEPT ![Head(keys)].pos =
                          <<col * NODE_SPACING_X, row * NODE_SPACING_Y>>],
                      Tail(keys), row, col + 1)

RECURSIVE LayoutLoop(_, _, _, _)
\* the loop of layoutGraph over the remaining keys, from (row, col)
LayoutLoop(nodes, keys, row, col) ==
    IF keys = <<>> THEN nodes
    ELSE LET placed == [nodes EXCEPT ![Head(keys)].pos =
                           <<col * NODE_SPACING_X, row * NODE_SPACING_Y>>]
         IN  IF col + 1 >= maxCols
             THEN LayoutLoop(placed, Tail(keys), row + 1, 0)
             ELSE LayoutLoop(placed, Tail(keys), row, col + 1)

\* GraphView::layoutGraph
layoutGraph(nodes) ==
    IF DOMAIN nodes = {} THEN nodes
    ELSE LayoutLoop(nodes, QMapKeys(DOMAIN nodes), 0, 0)

RECURSIVE ParseLinesAutoNodes(_, _, _)
ParseLinesAutoNodes(lines, nodes, pending) ==
    IF lines = <<>> THEN [nodes |-> nodes, pending |-> pending]
    ELSE LET nodeMatch == NodeMatch(Head(lines))
             edgeMatch == EdgeMatch(Head(lines))
         IN  IF nodeMatch.ok
             THEN ParseLinesAutoNodes(Tail(lines),
                                      createNode(nodes, nodeMatch.c1, nodeMatch.c2), pending)
             ELSE IF edgeMatch.ok
             THEN ParseLinesAutoNodes(Tail(lines),
                                      createNode(createNode(nodes, edgeMatch.c1, edgeMatch.c1),
                                                 edgeMatch.c2, edgeMatch.c2),
                                      Append(pending, <<edgeMatch.c1, edgeMatch.c2>>))
             ELSE ParseLinesAutoNodes(Tail(lines), nodes, pending)

RECURSIVE ParseLines(_, _, _)
\* the loop of parseDotFile over the lines: the nodes created and the edges kept
ParseLines(lines, nodes, pending) ==
    IF lines = <<>> THEN [nodes |-> nodes, pending |-> pending]
    ELSE LET nodeMatch == NodeMatch(Head(lines))
             edgeMatch == EdgeMatch(Head(lines))
         IN  IF nodeMatch.ok
             THEN ParseLines(Tail(lines), createNode(nodes, nodeMatch.c1, nodeMatch.c2),
                             pending)
             ELSE IF edgeMatch.ok
             THEN ParseLines(Tail(lines), nodes,
                             Append(pending, <<edgeMatch.c1, edgeMatch.c2>>))
             ELSE ParseLines(Tail(lines), nodes, pending)

RECURSIVE CreateEdges(_, _, _)
\* the second loop of parseDotFile: createEdge for every edge kept
CreateEdges(nodes, edges, pending) ==
    IF pending = <<>> THEN edges
    ELSE CreateEdges(nodes, createEdge(nodes, edges, Head(pending)[1], Head(pending)[2]),
                     Tail(pending))

SetMax(S) == CHOOSE x \in S : \A y \in S : y <= x

\* width and height of m_scene->itemsBoundingRect() of a graph: the ellipses with
\* their pen of width 2; the labels, lines and arrowheads are taken to lie inside
ItemsBoundingSize(nodes) ==
    <<SetMax({nodes[k].pos[1] : k \in DOMAIN nodes}) + NODE_WIDTH + 2,
      SetMax({nodes[k].pos[2] : k \in DOMAIN nodes}) + NODE_HEIGHT + 2>>

\* the ratio fitInView finds for a rectangle of this size with Qt::KeepAspectRatio
\* (QGraphicsView leaves a margin of 2 pixels on each side of the viewport)
FitRatio(size) ==
    DMin(DDivInt(ViewportSize[1] - 4, size[1]), DDivInt(ViewportSize[2] - 4, size[2]))

\* QGraphicsView::fitInView: the transform is reset to 1:1, then scaled by the ratio
fitInViewKeepsZoom(v, size) == [v EXCEPT !.scale = DMul(v.scale, FitRatio(size))]
fitInView(v, size) == [v EXCEPT !.scale = FitRatio(size)]

\* QGraphicsView::scale(s, s)
scaleBy(v, s) == [v EXCEPT !.scale = DMul(v.scale, s)]

\* GraphView::parseDotFile
parseDotFile(v, content) ==
    LET c     == clear(v)
        p     == ParseLines(Split(content, NL), c.m_nodes, <<>>)
        laid  == layoutGraph(p.nodes)
        built == [c EXCEPT !.m_nodes = laid,
                           !.edges = CreateEdges(laid, c.edges, p.pending)]
    IN  IF DOMAIN built.m_nodes # {}
        THEN scaleBy(fitInView([built EXCEPT !.sceneRect = [of |-> "graph", margin |-> 50]],
                               ItemsBoundingSize(built.m_nodes)),
                     FitZoomOut)
        ELSE showPlaceholder(built, NoNodesMessage)

\* GraphView::loadDotFile; file is what QFile finds at filePath
loadDotFileNoReturn(v, file, filePath) ==
    IF ~file.exists
    THEN parseDotFile(showPlaceholder(v, FailedPrefix \o filePath), <<>>)
    ELSE parseDotFile(v, file.data)
loadDotFile(v, file, filePath) ==
    IF ~file.exists
    THEN showPlaceholder(v, FailedPrefix \o filePath)
    ELSE parseDotFile(v, file.data)

\* GraphView::wheelEvent; up is angleDelta().y() > 0
wheelEventSlowOut(v, up) ==
    IF up THEN scaleBy(v, scaleFactor) ELSE scaleBy(v, FitZoomOut)
wheelEvent(v, up) ==
    IF up THEN scaleBy(v, scaleFactor) ELSE scaleBy(v, ZoomOutFactor)

(***************************************************************************)
(* The inputs: the files loadDotFile is given and the messages of callers. *)
(***************************************************************************)
IdA == <<"a">>
IdB == <<"b">>
IdC == <<"c">>
LabelMain == <<"m", "a", "i", "n">>
LabelHelper == <<"h", "e", "l", "p", "e", "r">>
LabelOther == <<"m", "2">>

NodeLine(id, label) ==
    <<Q>> \o id \o <<Q, " ">> \o LabelOpen \o <<Q>> \o label \o <<Q, "]", ";">>
EdgeLine(from, to) ==
    <<Q>> \o from \o <<Q, " ">> \o Arrow \o <<" ", Q>> \o to \o <<Q, ";">>
\* an edge statement with a label attribute:  "a" -> "b" [label="m2"];
AttrEdgeLine(from, to, label) ==
    <<Q>> \o from \o <<Q, " ">> \o Arrow \o <<" ">> \o NodeLine(to, label)

\* the lines short texts are made of
Catalogue ==
    { NodeLine(IdA, LabelMain), NodeLine(IdA, LabelOther), NodeLine(IdB, LabelHelper),
      EdgeLine(IdA, IdB), AttrEdgeLine(IdA, IdB, LabelOther) }

SmallTexts ==
    {Join(ls, NL) : ls \in UNION {[1..n -> Catalogue] : n \in 0..MaxLines}}

\* identifiers in an order that is not the order of QString operator<
IdPool ==
    << <<"d">>, <<"a", "b">>, <<"B">>, <<"a">>, <<"j">>, <<"c">>, <<"Z">>, <<"i">>,
       <<"b">>, <<"a", "a">> >>

\* n node declarations, from the r-th identifier of the pool on
WideTexts ==
    {Join([i \in 1..n |-> NodeLine(IdPool[((i - 1 + r) % Len(IdPool)) + 1], LabelMain)], NL) :
        n \in 1..MaxNodes, r \in 0..2}

LabelAlphabet == <<"s", "t", "d", ":", "v", "e", "c">>
GenLabel(n) == [i \in 1..n |-> LabelAlphabet[((i - 1) % Len(LabelAlphabet)) + 1]]
LabelTexts == {NodeLine(IdA, GenLabel(n)) : n \in 1..MaxLabelLen}

LongName ==
    <<"t", "h", "i", "s", "_", "i", "s", "_", "a", "_", "v", "e", "r", "y",
      "_", "l", "o", "n", "g", "_", "f", "u", "n", "c", "t", "i", "o", "n",
      "_", "n", "a", "m", "e", "_", "e", "x", "a", "m", "p", "l", "e">>

\* the end-to-end scenarios, and a text with a late, a repeated and a dangling edge
ScenarioA == Join(<<NodeLine(IdA, LabelMain), NodeLine(IdB, LabelHelper), EdgeLine(IdA, IdB)>>, NL)
ScenarioB == EdgeLine(<<"x">>, <<"y">>)
ScenarioD == NodeLine(IdA, LongName)
ScenarioE ==
    Join(<<EdgeLine(IdA, IdB), EdgeLine(IdB, IdC), EdgeLine(IdA, IdB),
           NodeLine(IdB, LabelHelper), NodeLine(IdA, LabelMain)>>, NL)
\* lines that are no statement: an empty label, a brace, an empty line
ScenarioF ==
    Join(<<<<"d", "i", "g", "r", "a", "p", "h", " ", "{">>, NodeLine(IdB, <<>>),
           EdgeLine(IdB, IdB), <<>>, <<"}">>>>, NL)
Scenarios == {ScenarioA, ScenarioB, ScenarioD, ScenarioE, ScenarioF}

Texts == SmallTexts \cup WideTexts \cup LabelTexts \cup Scenarios
ZoomTexts == {ScenarioA, ScenarioB}

PathGraph == <<"g", ".", "d", "o", "t">>
PathOther == <<"o", ".", "d", "o", "t">>
PathMissing == <<"n", "o", "n", "e">>
Paths == {PathGraph, PathOther, PathMissing}

File(data) == [exists |-> TRUE, data |-> data]
Missing == [exists |-> FALSE, data |-> <<>>]

\* the messages MainWindow shows
Messages == {InitialMessage, <<"R", "u", "n", "n", "i", "n", "g">>}

(***************************************************************************)
(* The state.                                                              *)
(***************************************************************************)
VARIABLES
    m_nodes,            \* QMap<QString, QGraphicsEllipseItem*>
    edges,              \* the edge items of m_scene
    m_placeholderText,  \* the placeholder item's message, or Null
    scale,              \* the view transform's scale, a qreal
    sceneRect,          \* what setSceneRect was last given
    fs,                 \* the files: path -> [exists, data]
    op,                 \* the last operation on the scene
    arg,                \* its argument: the path or the message
    content,            \* the text the last loadDotFile read
    prevIds,            \* the identifiers in m_nodes before the last operation
    wheelStart,         \* the scale before the wheel events since the last operation
    wheelLog,           \* those wheel events: <<up, scale after it>>
    wheelCount,         \* wheel events so far
    m_hedgehogs,        \* QVector<Hedgehog*>: each hedgehog's position and members
    lastEvent,          \* the last event the hedgehogs took: "spawn", "resize" or "tick"
    beforeEvent         \* m_hedgehogs as a tick on an empty canvas found it

vars == <<m_nodes, edges, m_placeholderText, scale, sceneRect, fs, op, arg, content,
          prevIds, wheelStart, wheelLog, wheelCount, m_hedgehogs, lastEvent, beforeEvent>>

sceneVars == <<m_nodes, edges, m_placeholderText, scale, sceneRect, fs, op, arg, content,
               prevIds, wheelStart, wheelLog, wheelCount>>
hedgehogVars == <<m_hedgehogs, lastEvent, beforeEvent>>

View == [m_nodes |-> m_nodes, edges |-> edges, m_placeholderText |-> m_placeholderText,
         scale |-> scale, sceneRect |-> sceneRect]

SetView(v) ==
    /\ m_nodes' = v.m_nodes
    /\ edges' = v.edges
    /\ m_placeholderText' = v.m_placeholderText
    /\ scale' = v.scale
    /\ sceneRect' = v.sceneRect

\* the members before the constructor body: no items, the identity transform
Constructed ==
    [m_nodes |-> NoNodes, edges |-> <<>>, m_placeholderText |-> Null, scale |-> One,
     sceneRect |-> [of |-> "none", margin |-> 0]]

\* GraphView::GraphView with the output file of the analysis being one of texts
SceneInit(texts) ==
    /\ LET v == showPlaceholder(Constructed, InitialMessage)
       IN  /\ m_nodes = v.m_nodes
           /\ edges = v.edges
           /\ m_placeholderText = v.m_placeholderText
           /\ scale = v.scale
           /\ sceneRect = v.sceneRect
    /\ fs \in {[p \in Paths |-> IF p = PathGraph THEN File(t)
                                ELSE IF p = PathOther THEN File(ScenarioA)
                                ELSE Missing] : t \in texts}
    /\ op = "init"
    /\ arg = InitialMessage
    /\ content = <<>>
    /\ prevIds = {}
    /\ wheelStart = One
    /\ wheelLog = <<>>
    /\ wheelCount = 0

\* the scene alone: the timer and the resize events are left to SpecHedgehog
InitWith(texts) ==
    /\ SceneInit(texts)
    /\ m_hedgehogs = <<>>
    /\ lastEvent = "none"
    /\ beforeEvent = <<>>

Init == InitWith(Texts)
InitZoom == InitWith(ZoomTexts)

SceneOp(v, name, a, text) ==
    /\ SetView(v)
    /\ op' = name
    /\ arg' = a
    /\ content' = text
    /\ prevIds' = DOMAIN m_nodes
    /\ wheelStart' = v.scale
    /\ wheelLog' = <<>>
    /\ UNCHANGED <<fs, wheelCount>>
    /\ UNCHANGED hedgehogVars

LoadDotFile(filePath) ==
    SceneOp(loadDotFile(View, fs[filePath], filePath),
            IF fs[filePath].exists THEN "load" ELSE "ioerror",
            filePath, fs[filePath].data)

ShowPlaceholder(message) ==
    SceneOp(showPlaceholder(View, message), "placeholder", message, <<>>)

Clear == SceneOp(clear(View), "clear", <<>>, <<>>)

WheelEvent(up, cap) ==
    /\ wheelCount < cap
    /\ LET v == wheelEvent(View, up)
       IN  /\ SetView(v)
           /\ wheelLog' = Append(wheelLog, <<up, v.scale>>)
    /\ wheelCount' = wheelCount + 1
    /\ UNCHANGED <<fs, op, arg, content, prevIds, wheelStart>>
    /\ UNCHANGED hedgehogVars

Next ==
    \/ \E filePath \in Paths : LoadDotFile(filePath)
    \/ \E message \in Messages : ShowPlaceholder(message)
    \/ Clear
    \/ \E up \in BOOLEAN : WheelEvent(up, MaxWheel)

Spec == Init /\ [][Next]_vars

NextZoom ==
    \/ \E filePath \in Paths : LoadDotFile(filePath)
    \/ \E message \in Messages : ShowPlaceholder(message)
    \/ Clear
    \/ \E up \in BOOLEAN : WheelEvent(up, MaxZoom)

SpecZoom == InitZoom /\ [][NextZoom]_vars

(***************************************************************************)
(* The hedgehogs.  graphview.h declares Hedgehog and the two handlers of   *)
(* GraphView that drive it; their bodies are translated from section 4.5   *)
(* of the specification.  Positions are points of the pixel grid and the   *)
(* canvas is the rectangle QRectF(0, 0, w, h).                             *)
(***************************************************************************)
MaxCanvas == 6      \* the longest side of the canvas
MaxCountdown == 2   \* the longest countdown pickNewTarget draws

NumHedgehogs == 1   \* how many spawnHedgehogs creates
Speed == 2          \* m_speed: grid units a tick
Epsilon == 2        \* a hedgehog closer to its target than this has arrived
Footprint == 1      \* the side of a hedgehog's own rectangle

Point(x, y) == [x |-> x, y |-> y]
Rect(w, h) == [w |-> w, h |-> h]

CanvasSides == {0, MaxCanvas \div 2, MaxCanvas}
CanvasRects == {Rect(w, h) : w \in CanvasSides, h \in CanvasSides}

\* QRectF::isEmpty and QRectF::contains(QPointF), the edges included
isEmpty(bounds) == bounds.w <= 0 \/ bounds.h <= 0
contains(bounds, p) == p.x >= 0 /\ p.x <= bounds.w /\ p.y >= 0 /\ p.y <= bounds.h

PointsIn(bounds) == {Point(x, y) : x \in 0..bounds.w, y \in 0..bounds.h}

\* where a target may fall: the bounds minus the hedgehog's own footprint
TargetArea(bounds) ==
    PointsIn(Rect(Max(0, bounds.w - Footprint), Max(0, bounds.h - Footprint)))

Truncate(n, d) == IF n < 0 THEN -((-n) \div d) ELSE n \div d
Clamp(lo, n, hi) == IF n < lo THEN lo ELSE IF n > hi THEN hi ELSE n

\* the least integer whose square is at least n
CeilSqrt(n) == CHOOSE r \in 0..n : r * r >= n /\ \A q \in 0..(r - 1) : q * q < n

SquaredDistance(p, q) == (q.x - p.x) * (q.x - p.x) + (q.y - p.y) * (q.y - p.y)

\* Speed units along the straight line from p to target, on the pixel grid:
\* the length is rounded up and the components towards zero, so that a step
\* is never longer than Speed, and a step that would pass the target ends on it
velocityToward(p, target) ==
    LET distance == CeilSqrt(SquaredDistance(p, target))
    IN  IF distance <= Speed THEN Point(target.x - p.x, target.y - p.y)
        ELSE Point(Truncate((target.x - p.x) * Speed, distance),
                   Truncate((target.y - p.y) * Speed, distance))

\* the facing flag follows the sign of the horizontal velocity
facing(velocity, m_facingRight) ==
    IF velocity.x > 0 THEN TRUE ELSE IF velocity.x < 0 THEN FALSE ELSE m_facingRight

\* Hedgehog::pickNewTarget, with the two random draws as arguments
pickNewTarget(h, target, countdown) ==
    LET velocity == velocityToward(h.pos, target)
    IN  [h EXCEPT !.m_targetPos = target,
                  !.m_velocity = velocity,
                  !.m_facingRight = facing(velocity, @),
                  !.m_changeDirectionCounter = countdown]

\* Hedgehog::setSceneBounds: only a hedgehog left outside is moved and re-targeted
setSceneBounds(h, bounds, target, countdown) ==
    IF contains(bounds, h.pos)
    THEN [h EXCEPT !.m_bounds = bounds]
    ELSE pickNewTarget([h EXCEPT !.m_bounds = bounds,
                                 !.pos = Point(Clamp(0, h.pos.x, bounds.w),
                                               Clamp(0, h.pos.y, bounds.h))],
                       target, countdown)

\* Hedgehog::randomWalk: one tick
randomWalk(h, target, countdown) ==
    IF isEmpty(h.m_bounds) THEN h
    ELSE LET velocity == velocityToward(h.pos, h.m_targetPos)
             moved == [h EXCEPT !.pos = Point(h.pos.x + velocity.x, h.pos.y + velocity.y),
                                !.m_velocity = velocity,
                                !.m_facingRight = facing(velocity, @),
                                !.m_changeDirectionCounter = @ - 1]
         IN  IF \/ moved.m_changeDirectionCounter <= 0
                \/ SquaredDistance(moved.pos, moved.m_targetPos) < Epsilon * Epsilon
             THEN pickNewTarget(moved, target, countdown)
             ELSE moved

\* Hedgehog::Hedgehog and the placement by GraphView::spawnHedgehogs
Spawned(bounds) ==
    {pickNewTarget([pos |-> p, m_velocity |-> Point(0, 0), m_targetPos |-> p,
                    m_bounds |-> bounds, m_speed |-> Speed,
                    m_changeDirectionCounter |-> 0, m_facingRight |-> TRUE],
                   target, countdown) :
        p \in PointsIn(bounds), target \in TargetArea(bounds), countdown \in 1..MaxCountdown}

Hedgehogs == 1..NumHedgehogs

\* the random draws of one event: a target and a countdown for each hedgehog
Draws(bounds) == [Hedgehogs -> TargetArea(bounds) \X (1..MaxCountdown)]

\* GraphView::GraphView with the canvas at its full size
InitHedgehog ==
    /\ SceneInit({ScenarioA})
    /\ m_hedgehogs \in [Hedgehogs -> Spawned(Rect(MaxCanvas, MaxCanvas))]
    /\ lastEvent = "spawn"
    /\ beforeEvent = <<>>

HedgehogEvent(name, after) ==
    /\ m_hedgehogs' = after
    /\ lastEvent' = name
    /\ beforeEvent' = IF name = "tick" /\ \E i \in Hedgehogs : isEmpty(m_hedgehogs[i].m_bounds)
                      THEN m_hedgehogs ELSE <<>>
    /\ UNCHANGED sceneVars

\* GraphView::resizeEvent: every hedgehog is given the new canvas
ResizeEvent(size) ==
    \E draw \in Draws(size) :
        HedgehogEvent("resize",
                      [i \in Hedgehogs |->
                          setSceneBounds(m_hedgehogs[i], size, draw[i][1], draw[i][2])])

\* GraphView::updateHedgehogs, the slot of m_animationTimer
UpdateHedgehogs ==
    \E draw \in Draws(m_hedgehogs[1].m_bounds) :
        HedgehogEvent("tick",
                      [i \in Hedgehogs |->
                          randomWalk(m_hedgehogs[i], draw[i][1], draw[i][2])])

NextHedgehog ==
    \/ \E size \in CanvasRects : ResizeEvent(size)
    \/ UpdateHedgehogs

SpecHedgehog == InitHedgehog /\ [][NextHedgehog]_vars

(***************************************************************************)
(* What a text declares, read off its lines.                               *)
(***************************************************************************)
Loaded == op = "load"
LinesOf(text) == Split(text, NL)

\* the lines of the node shape, and those of the edge shape that are not
IsNodeLine(l) == NodeMatch(l).ok
IsEdgeLine(l) == ~NodeMatch(l).ok /\ EdgeMatch(l).ok

DeclaredIds(text) ==
    {NodeMatch(LinesOf(text)[i]).c1 : i \in {j \in 1..Len(LinesOf(text)) : IsNodeLine(LinesOf(text)[j])}}

\* the lines that declare id, in text order
DeclarationsOf(text, id) ==
    {i \in 1..Len(LinesOf(text)) :
        IsNodeLine(LinesOf(text)[i]) /\ NodeMatch(LinesOf(text)[i]).c1 = id}
FirstLine(text, id) == CHOOSE i \in DeclarationsOf(text, id) : \A j \in DeclarationsOf(text, id) : i <= j
LastLine(text, id) == CHOOSE i \in DeclarationsOf(text, id) : \A j \in DeclarationsOf(text, id) : i >= j
FirstLabel(text, id) == NodeMatch(LinesOf(text)[FirstLine(text, id)]).c2
LastLabel(text, id) == NodeMatch(LinesOf(text)[LastLine(text, id)]).c2

\* 0-based index of id in first-seen order, and in ascending order of QString
SeenIndex(text, id) ==
    Cardinality({x \in DeclaredIds(text) : FirstLine(text, x) < FirstLine(text, id)})
KeyIndex(id) == Cardinality({x \in DOMAIN m_nodes : QStringLess(x, id)})

GridCell(k) == <<(k % 5) * 200, (k \div 5) * 80>>

RECURSIVE ResolvedEdges(_, _)
\* the edge declarations of the lines, in order, whose endpoints are both in ids
ResolvedEdges(lines, ids) ==
    IF lines = <<>> THEN <<>>
    ELSE LET e == EdgeMatch(Head(lines))
         IN  (IF IsEdgeLine(Head(lines)) /\ e.c1 \in ids /\ e.c2 \in ids
              THEN <<<<e.c1, e.c2>>>> ELSE <<>>) \o ResolvedEdges(Tail(lines), ids)

EdgePairs == [i \in 1..Len(edges) |-> <<edges[i].from, edges[i].to>>]

PlaceholderState == m_placeholderText # Null /\ DOMAIN m_nodes = {} /\ edges = <<>>
GraphState == DOMAIN m_nodes # {} /\ m_placeholderText = Null

(***************************************************************************)
(* C1.  After a loadDotFile of a readable file the keys of m_nodes are     *)
(* exactly the identifiers of the node-declaration lines of that file,     *)
(* whatever was loaded, shown, cleared or zoomed before.                   *)
(***************************************************************************)
NodesAreTheDeclaredIds == Loaded => DOMAIN m_nodes = DeclaredIds(content)

\* a load over a graph that had other nodes, of a text that declares a node twice
ReloadWithDuplicate ==
    /\ Loaded
    /\ prevIds \ DeclaredIds(content) # {}
    /\ \E id \in DOMAIN m_nodes : Cardinality(DeclarationsOf(content, id)) > 1

(***************************************************************************)
(* C2.  The edge items after a load are, in order, the edge declarations   *)
(* of the text whose two endpoints are both keys of the final node set:    *)
(* late declarations count, dangling edges are dropped, repeats are kept.  *)
(***************************************************************************)
EdgesAreTheResolvedDeclarations ==
    Loaded => EdgePairs = ResolvedEdges(LinesOf(content), DOMAIN m_nodes)

\* one text with an edge before its endpoints' lines, twice, and a dangling edge
LateRepeatedAndDanglingEdge ==
    /\ Loaded
    /\ \E i, j \in 1..Len(edges) :
          /\ i < j
          /\ EdgePairs[i] = EdgePairs[j]
          /\ \E k \in 1..Len(LinesOf(content)) :
                /\ IsEdgeLine(LinesOf(content)[k])
                /\ EdgeMatch(LinesOf(content)[k]).c1 = edges[i].from
                /\ k < FirstLine(content, edges[i].from)
    /\ \E k \in 1..Len(LinesOf(content)) :
          /\ IsEdgeLine(LinesOf(content)[k])
          /\ EdgeMatch(LinesOf(content)[k]).c2 \notin DOMAIN m_nodes

(***************************************************************************)
(* C3.  As claimed: the k-th node in first-seen order of the text is at    *)
(* grid cell (k mod 5, k div 5).                                           *)
(***************************************************************************)
FirstSeenOrderIsGridOrder ==
    Loaded => \A id \in DOMAIN m_nodes : m_nodes[id].pos = GridCell(SeenIndex(content, id))

(***************************************************************************)
(* C3, amended.  The k-th node in ascending order of the identifiers (the  *)
(* iteration order of the QMap) is at grid cell (k mod 5, k div 5), and    *)
(* layoutGraph on the laid-out nodes changes nothing.                      *)
(***************************************************************************)
KeyOrderIsGridOrder ==
    /\ \A id \in DOMAIN m_nodes : m_nodes[id].pos = GridCell(KeyIndex(id))
    /\ layoutGraph(m_nodes) = m_nodes

\* a second grid row, with an identifier whose first-seen index is not its key index
SecondRowOutOfOrder ==
    /\ Loaded
    /\ Cardinality(DOMAIN m_nodes) > 5
    /\ \E id \in DOMAIN m_nodes : SeenIndex(content, id) # KeyIndex(id)

(***************************************************************************)
(* C4.  As claimed: in every reachable state the scene is in exactly one   *)
(* of placeholder state and graph state.                                   *)
(***************************************************************************)
PlaceholderXorGraph == (PlaceholderState \/ GraphState) /\ ~(PlaceholderState /\ GraphState)

(***************************************************************************)
(* C4, amended.  The scene is in exactly one of the two states unless the  *)
(* last operation on it was a direct clear(), which leaves it in neither:  *)
(* no nodes, no edges and no placeholder.                                  *)
(***************************************************************************)
PlaceholderXorGraphUnlessCleared ==
    /\ op # "clear" => PlaceholderXorGraph
    /\ op = "clear" => ~PlaceholderState /\ ~GraphState /\ DOMAIN m_nodes = {} /\ edges = <<>>

\* a placeholder shown over a graph
PlaceholderOverGraph == op = "placeholder" /\ prevIds # {} /\ PlaceholderState

(***************************************************************************)
(* C5.  As claimed: a node declared more than once shows the label of its  *)
(* last declaration.                                                       *)
(***************************************************************************)
LastLabelShown ==
    Loaded => \A id \in DOMAIN m_nodes : m_nodes[id].text = displayLabel(LastLabel(content, id))

(***************************************************************************)
(* C5, amended.  A node declared more than once has one entry, its grid    *)
(* cell is the one of its key, and it shows the label of its first         *)
(* declaration: later labels are ignored.                                  *)
(***************************************************************************)
FirstLabelShown ==
    Loaded => \A id \in DOMAIN m_nodes :
                 /\ m_nodes[id].text = displayLabel(FirstLabel(content, id))
                 /\ m_nodes[id].pos = GridCell(KeyIndex(id))

\* a node declared twice with different labels
RedeclaredWithOtherLabel ==
    /\ Loaded
    /\ \E id \in DOMAIN m_nodes : FirstLabel(content, id) # LastLabel(content, id)

(***************************************************************************)
(* C6.  loadDotFile of a path that cannot be opened ends in placeholder    *)
(* state, without nodes or edges, with the message "Failed to open output  *)
(* file:" and the path; the text is not parsed (the message would be the   *)
(* one of an empty graph).                                                 *)
(***************************************************************************)
FailedLoadShowsThePath ==
    op = "ioerror" =>
        /\ PlaceholderState
        /\ DOMAIN m_nodes = {} /\ edges = <<>>
        /\ Contains(m_placeholderText, arg)
        /\ m_placeholderText = FailedPrefix \o arg
        /\ m_placeholderText # NoNodesMessage

\* a failed load over a displayed graph
FailedLoadOverGraph == op = "ioerror" /\ prevIds # {} /\ arg = PathMissing

(***************************************************************************)
(* C7.  A load of a text without node declaration ends in placeholder      *)
(* state with the message "No nodes found in the call graph", no nodes and *)
(* no edge items, and leaves the view scale as it was: no fit-to-content.  *)
(***************************************************************************)
EmptyLoadShowsNoNodesFound ==
    /\ [](Loaded /\ DeclaredIds(content) = {} =>
            /\ PlaceholderState
            /\ m_placeholderText = NoNodesMessage
            /\ DOMAIN m_nodes = {} /\ edges = <<>>
            /\ sceneRect.of = "placeholder")
    /\ [][op' = "load" /\ wheelLog' = <<>> /\ DeclaredIds(content') = {} => scale' = scale]_vars

\* an empty load of a text with an edge declaration, the zoom of the wheel still set
EdgeOnlyLoadKeepsZoom ==
    /\ Loaded
    /\ DeclaredIds(content) = {}
    /\ \E i \in 1..Len(LinesOf(content)) : IsEdgeLine(LinesOf(content)[i])
    /\ wheelLog = <<>>
    /\ scale # One
    /\ PlaceholderState

(***************************************************************************)
(* C8.  The label a node shows is its label when that has at most 20       *)
(* characters, and otherwise "..." followed by the last 20 characters of   *)
(* the label, 23 characters in all.                                        *)
(***************************************************************************)
LongLabelsKeepTheirLast20 ==
    Loaded => \A id \in DOMAIN m_nodes :
        LET label == FirstLabel(content, id)
            shown == m_nodes[id].text
        IN  /\ Len(label) <= 20 => shown = label
            /\ Len(label) > 20 =>
                  /\ Len(shown) = 23
                  /\ SubSeq(shown, 1, 3) = <<".", ".", ".">>
                  /\ \A i \in 1..20 : shown[3 + i] = label[Len(label) - 20 + i]

\* a label of 21 characters or more, cut
LongLabelCut ==
    /\ Loaded
    /\ \E id \in DOMAIN m_nodes :
          /\ Len(FirstLabel(content, id)) > 20
          /\ m_nodes[id].text # FirstLabel(content, id)

(***************************************************************************)
(* The wheel events since the last operation on the scene.                 *)
(***************************************************************************)
\* the scale after i of them
ScaleAfter(i) == IF i = 0 THEN wheelStart ELSE wheelLog[i][2]

\* the events i+1 .. i+n zoom in and the events i+n+1 .. i+2n zoom out
InsThenOuts(i, n) ==
    /\ n >= 1
    /\ i + 2 * n <= Len(wheelLog)
    /\ \A j \in 1..n : wheelLog[i + j][1] /\ ~wheelLog[i + n + j][1]

RoundTrips == {<<i, n>> \in (0..Len(wheelLog)) \X (1..Len(wheelLog)) : InsThenOuts(i, n)}

Positive(x) == x.kind = "inf" \/ (x.kind = "fin" /\ x.m # <<>>)

\* |x - s| <= n * 2^-50 * s, for finite x and s
WithinTolerance(x, s, n) ==
    LET lo == IF x.e < s.e THEN x.e ELSE s.e
        xm == ShiftLeft(x.m, x.e - lo)
        sm == ShiftLeft(s.m, s.e - lo)
        d  == IF BigLess(xm, sm) THEN BigSub(sm, xm) ELSE BigSub(xm, sm)
    IN  ~BigLess(BigMulSmall(sm, n), ShiftLeft(d, 50))

(***************************************************************************)
(* C9.  As claimed: n zoom-in wheel events followed by n zoom-out wheel    *)
(* events return the scale to the value it had, and the scale is positive. *)
(***************************************************************************)
ZoomRoundTripIsExact ==
    /\ \A t \in RoundTrips : ScaleAfter(t[1] + 2 * t[2]) = ScaleAfter(t[1])
    /\ Positive(scale)

(***************************************************************************)
(* C9, amended.  n zoom-in wheel events followed by n zoom-out wheel       *)
(* events return the scale to within n * 2^-50 of its value, relatively    *)
(* (the products are rounded, and 1 / 1.1 is); the scale stays positive.   *)
(***************************************************************************)
ZoomRoundTripWithinTolerance ==
    /\ \A t \in RoundTrips :
          /\ ScaleAfter(t[1] + 2 * t[2]).kind = "fin"
          /\ WithinTolerance(ScaleAfter(t[1] + 2 * t[2]), ScaleAfter(t[1]), t[2])
    /\ \A i \in 0..Len(wheelLog) : Positive(ScaleAfter(i))
    /\ Positive(scale)

\* a round trip that ends beside its start
InexactRoundTrip ==
    \E t \in RoundTrips : ScaleAfter(t[1] + 2 * t[2]) # ScaleAfter(t[1])

(***************************************************************************)
(* C10.  As claimed: right after any change of the scene content the view  *)
(* scale is the one fitted to the new content, so that a zoom of the wheel *)
(* does not carry over: for a graph the fit of its items, for the message  *)
(* of the constructor the scale the constructor left.                      *)
(***************************************************************************)
FittedScale(nodes) == DMul(FitRatio(ItemsBoundingSize(nodes)), FitZoomOut)

EveryChangeFitsTheView ==
    wheelLog = <<>> =>
        /\ GraphState => scale = FittedScale(m_nodes)
        /\ PlaceholderState /\ m_placeholderText = InitialMessage => scale = One

(***************************************************************************)
(* C10, amended.  A load that yields a graph sets the view scale from the  *)
(* graph and the viewport alone; showPlaceholder, a failed load, an empty  *)
(* load and clear() leave the view scale as it was, so a zoom of the wheel *)
(* carries over into the placeholder.                                      *)
(***************************************************************************)
OnlyGraphLoadsFitTheView ==
    /\ [](wheelLog = <<>> /\ GraphState => scale = FittedScale(m_nodes))
    /\ [][wheelLog' = <<>> /\ DOMAIN m_nodes' = {} => scale' = scale]_vars

\* a placeholder shown with the zoom of the wheel events before it
PlaceholderKeepsZoom ==
    /\ op = "placeholder"
    /\ wheelLog = <<>>
    /\ wheelCount > 0
    /\ scale # One

(***************************************************************************)
(* C11.  As claimed: whatever ticks and resize events came before, at the  *)
(* end of a tick every hedgehog's position lies inside the canvas bounds   *)
(* it then has, the first tick after a shrinking resize included, and a    *)
(* tick on a zero-size canvas leaves every hedgehog as it found it.        *)
(***************************************************************************)
HedgehogsStayInBounds ==
    lastEvent = "tick" =>
        \A i \in DOMAIN m_hedgehogs :
            /\ contains(m_hedgehogs[i].m_bounds, m_hedgehogs[i].pos)
            /\ isEmpty(m_hedgehogs[i].m_bounds) => m_hedgehogs = beforeEvent

====
